---- MODULE Spec2Model ----
(***************************************************************************)
(* Cycle-level model of USBAnalyzer (sol_usb/gateware/usb/analyzer.py).    *)
(*                                                                         *)
(* One state of the model is the registers and FIFO contents of the 'usb'   *)
(* domain at a clock edge.  The values the input pins (UTMI rx_active /    *)
(* rx_valid / rx_data, capture_enable and stream.ready) carry during a     *)
(* cycle are the parameter of the action Tick, the clock edge; the         *)
(* combinational signals of the design are operators of state and pins.    *)
(***************************************************************************)
EXTENDS Integers, Sequences, FiniteSets, TLC

(***************************************************************************)
(* Sizes.  The three FIFO depths are scaled down so that the state space   *)
(* is finite and small; the design has MAX_PACKET_SIZE_BYTES = 1027,       *)
(* a length FIFO of 512 entries and mem_depth = 65536 by default.          *)
(***************************************************************************)
PacketDepth == 2
LengthDepth == 1
MaxMemDepth == 4
MaxEpisodes == 2
\* The largest mem_depth a constructor call is tried with.
MaxCtorDepth == 64

LengthModulus == 65536
TransferredModulus == 131072
OverrunMarker == 255

\* The byte values the receiver presents on rx_data.
Data == {170, 187}
\* What rx_data carries in a cycle that presents no byte.
IdleData == CHOOSE d \in Data : \A e \in Data : d <= e
\* What the packet FIFO's read port may show while the FIFO is empty.
StaleData == Data \cup {0}

VARIABLES
    mem_size,                 \* self.mem_size
    capture_state,            \* FSM 'capture'
    captured_packet_length,   \* Signal(16)
    queue_state,              \* FSM 'packet_queue'
    packet_length,            \* Signal(16)
    packet_transferred,       \* Signal(17)
    overrun,                  \* self.overrun
    packet_buffer,            \* staging FIFO contents, head first
    length_buffer,            \* pending-lengths FIFO contents, head first
    data_level,               \* output ring buffer: the number of bytes it holds
    \* The receive channel as the receiver drives it.
    rx_was_active,            \* rx_active during the previous cycle
    episodes,                 \* episodes the receiver has begun
    episode,                  \* the running episode
    \* Observers: they record what the design did and never feed back into it.
    closed,                   \* the episode that ended in the previous cycle
    record,                   \* the record the transfer engine is working on
    parse,                    \* a consumer parsing the pushed byte stream
    expected,                 \* bytes of completed sessions' records not yet pushed
    in_order,                 \* every pushed byte so far was the head of expected
    committed,                \* bytes of all completed sessions' records, capped
    history,                  \* what the transfer engine has done at least once
    \* A second run of the same design, for comparing two consumers.
    twin,                     \* the design state of the run that is not stepping
    phase,                    \* which run steps next
    held,                     \* the receive pins of the cycle the first run took
    sent,                     \* what the first run's capture FSM drove in it
    same,                     \* the two runs' capture FSMs drove the same so far
    \* Construction.
    construct                 \* the call of __init__: its mem_depth and its outcome

design == << mem_size, capture_state, captured_packet_length, queue_state,
             packet_length, packet_transferred, overrun,
             packet_buffer, length_buffer, data_level >>
wire == << rx_was_active, episodes, episode >>
observers == << closed, record, parse, expected, in_order, committed, history >>
pair == << twin, phase, held, sent, same >>
vars == << design, wire, observers, pair, construct >>

----------------------------------------------------------------------------
(* The input pins of one cycle: the UTMI receive handshake, capture_enable *)
(* and the consumer's stream.ready.                                        *)
Pins == [ rx_active : BOOLEAN, rx_valid : BOOLEAN, rx_data : Data,
          capture_enable : BOOLEAN, ready : BOOLEAN ]

\* An episode is a maximal run of cycles with rx_active high.
EpisodeStarts(p) == p.rx_active /\ ~rx_was_active
EpisodeEnds(p) == ~p.rx_active /\ rx_was_active

NoEpisode == [ armed |-> FALSE, first |-> FALSE, bytes |-> << >>, off |-> FALSE ]

\* The running episode: whether its first cycle found the capture FSM in IDLE
\* with capture_enable high (armed), and for an armed episode whether that cycle
\* presented a byte (first), the bytes presented in its later cycles (bytes),
\* and whether one of those was presented with capture_enable low (off).
episode_next(p, armed) ==
    IF ~p.rx_active THEN NoEpisode
    ELSE IF ~rx_was_active
         THEN [ armed |-> armed, first |-> armed /\ p.rx_valid, bytes |-> << >>,
                off |-> FALSE ]
    ELSE IF p.rx_valid /\ episode.armed
         THEN [ episode EXCEPT !.bytes = Append(@, p.rx_data),
                               !.off = @ \/ ~p.capture_enable ]
    ELSE episode

\* Bytes a capture session has been presented after the cycle that began it,
\* the cycle with pins p included.
EpisodeTail(p) == Len(episode_next(p, FALSE).bytes)

\* What the receiver may present: a captured packet is at most
\* MAX_PACKET_SIZE_BYTES long after the cycle that raises rx_active, a run holds
\* at most MaxEpisodes packets, and rx_data carries nothing when no byte is
\* presented.
Presentable(p) ==
    /\ EpisodeTail(p) <= PacketDepth
    /\ EpisodeStarts(p) => episodes < MaxEpisodes
    /\ (p.rx_active /\ p.rx_valid) \/ p.rx_data = IdleData

----------------------------------------------------------------------------
(* USBAnalyzer.__init__: the depths the constructor accepts. *)
AcceptedDepth(mem_depth) == (mem_depth % 2) = 0

MemDepths == { d \in 1..MaxMemDepth : AcceptedDepth(d) }

----------------------------------------------------------------------------
(* SyncFIFOBuffered as the design uses it: a bounded queue with a          *)
(* registered level; a write is taken when the FIFO is not full at the     *)
(* start of the cycle, a read when it is not empty.                        *)
w_rdy(fifo, depth) == Len(fifo) < depth
r_rdy(fifo) == Len(fifo) > 0

FifoNext(fifo, depth, w_en, w_data, r_en) ==
    LET kept == IF r_en /\ r_rdy(fifo) THEN Tail(fifo) ELSE fifo
    IN  IF w_en /\ w_rdy(fifo, depth) THEN Append(kept, w_data) ELSE kept

packet_buffer_r_data(stale) == IF r_rdy(packet_buffer) THEN Head(packet_buffer) ELSE stale
length_buffer_r_data == IF r_rdy(length_buffer) THEN Head(length_buffer) ELSE 0

----------------------------------------------------------------------------
(* FSM 'capture' *)

idle == capture_state = "IDLE"

\* Variant: capturing driven from "not in START" instead of ongoing('CAPTURE').
capturing_NotStart == capture_state # "START"

capturing == capture_state = "CAPTURE"

byte_received(p) == p.rx_valid /\ p.rx_active

packet_buffer_w_en(p) == capture_state = "CAPTURE" /\ byte_received(p)
packet_buffer_w_data(p) == p.rx_data
sampling(p) == packet_buffer_w_en(p)

length_buffer_w_en(p) == capture_state = "CAPTURE" /\ ~p.rx_active
length_buffer_w_data == captured_packet_length

\* Variant: START leaves for IDLE as soon as capture is enabled.
CaptureStart_Eager(p) ==
    IF p.capture_enable THEN "IDLE" ELSE "START"

CaptureStart(p) ==
    IF ~p.rx_active /\ p.capture_enable THEN "IDLE" ELSE "START"

\* Variant: no capture is begun while the ring buffer is full.
CaptureIdle_Backpressure(p) ==
    IF ~p.capture_enable THEN "START"
    ELSE IF p.rx_active /\ data_level < mem_size THEN "CAPTURE"
    ELSE "IDLE"

CaptureIdle(p) ==
    IF ~p.capture_enable THEN "START"
    ELSE IF p.rx_active THEN "CAPTURE"
    ELSE "IDLE"

\* Variant: a capture that gives up when capture_enable falls.
CaptureCapture_Abort(p) ==
    IF ~p.rx_active THEN "IDLE"
    ELSE IF ~p.capture_enable THEN "START"
    ELSE "CAPTURE"

CaptureCapture(p) ==
    IF ~p.rx_active THEN "IDLE" ELSE "CAPTURE"

capture_next(p) ==
    CASE capture_state = "START"   -> CaptureStart(p)
      [] capture_state = "IDLE"    -> CaptureIdle(p)
      [] capture_state = "CAPTURE" -> CaptureCapture(p)

\* Variant: the counter is not cleared when a capture begins.
captured_packet_length_next_NoClear(p) ==
    IF capture_state = "CAPTURE" /\ byte_received(p)
    THEN (captured_packet_length + 1) % LengthModulus
    ELSE captured_packet_length

captured_packet_length_next(p) ==
    IF capture_state = "IDLE" /\ p.capture_enable /\ p.rx_active THEN 0
    ELSE IF capture_state = "CAPTURE" /\ byte_received(p)
         THEN (captured_packet_length + 1) % LengthModulus
    ELSE captured_packet_length

----------------------------------------------------------------------------
(* FSM 'packet_queue' *)

Hi(len) == (len \div 256) % 256
Lo(len) == len % 256

length_buffer_r_en == queue_state = "POP_LENGTH"

\* Variant: the fit test forgets the two prefix bytes.
WouldOverflow_NoPrefix == data_level + packet_length > mem_size

\* Variant: a record that fits exactly is refused.
WouldOverflow_Exact == data_level + packet_length + 2 >= mem_size

WouldOverflow == data_level + packet_length + 2 > mem_size
\* Variant: OVERRUN waits until more than two bytes are free.
MarkerFits_Strict == data_level + 2 < mem_size

\* Variant: OVERRUN waits for one free byte only.
MarkerFits_OneByte == data_level + 1 <= mem_size

MarkerFits == data_level + 2 <= mem_size

TransferHeader == queue_state = "TRANSFER_PACKET" /\ packet_transferred \in {0, 1}
\* Variant: the payload loop tests packet_length after moving a byte.
TransferData_AtLeastOne ==
    queue_state = "TRANSFER_PACKET"
        /\ (packet_transferred = 2 \/ (packet_transferred > 2 /\ packet_length # 0))

TransferData ==
    queue_state = "TRANSFER_PACKET" /\ packet_transferred \notin {0, 1} /\ packet_length # 0
TransferDone ==
    queue_state = "TRANSFER_PACKET" /\ ~TransferHeader /\ ~TransferData

ClearMarker == queue_state = "CLEAR_OVERRUN" /\ packet_transferred \in {0, 1}
ClearData ==
    queue_state = "CLEAR_OVERRUN" /\ packet_transferred \notin {0, 1} /\ packet_length # 0
ClearDone ==
    queue_state = "CLEAR_OVERRUN" /\ ~ClearMarker /\ ~ClearData

packet_buffer_r_en == TransferData \/ ClearData

data_buffer_w_en == TransferHeader \/ TransferData \/ ClearMarker
data_buffer_w_data(stale) ==
    CASE queue_state = "TRANSFER_PACKET" /\ packet_transferred = 0 -> Hi(packet_length)
      [] queue_state = "TRANSFER_PACKET" /\ packet_transferred = 1 -> Lo(packet_length)
      [] TransferData -> packet_buffer_r_data(stale)
      [] ClearMarker -> OverrunMarker
      [] OTHER -> 0

queue_next ==
    CASE queue_state = "IDLE" ->
            IF r_rdy(length_buffer) THEN "POP_LENGTH" ELSE "IDLE"
      [] queue_state = "POP_LENGTH" -> "INSPECT_PACKET"
      [] queue_state = "INSPECT_PACKET" ->
            IF WouldOverflow THEN "OVERRUN" ELSE "TRANSFER_PACKET"
      [] queue_state = "TRANSFER_PACKET" ->
            IF TransferDone THEN "IDLE" ELSE "TRANSFER_PACKET"
      [] queue_state = "OVERRUN" ->
            IF MarkerFits THEN "CLEAR_OVERRUN" ELSE "OVERRUN"
      [] queue_state = "CLEAR_OVERRUN" ->
            IF ClearDone THEN "IDLE" ELSE "CLEAR_OVERRUN"

\* Variant: a payload step counts only when the packet FIFO has a byte to give.
packet_length_next_Waiting ==
    IF queue_state = "POP_LENGTH" THEN length_buffer_r_data
    ELSE IF (TransferData \/ ClearData) /\ r_rdy(packet_buffer)
    THEN (packet_length - 1) % LengthModulus
    ELSE packet_length

packet_length_next ==
    IF queue_state = "POP_LENGTH" THEN length_buffer_r_data
    ELSE IF TransferData \/ ClearData THEN (packet_length - 1) % LengthModulus
    ELSE packet_length

packet_transferred_next ==
    CASE queue_state = "INSPECT_PACKET" -> 0
      [] queue_state = "TRANSFER_PACKET" -> (packet_transferred + 1) % TransferredModulus
      [] ClearMarker -> packet_transferred + 1
      [] OTHER -> packet_transferred

\* Variant: the flag is latched in CLEAR_OVERRUN instead of OVERRUN.
overrun_next_Late == IF queue_state = "CLEAR_OVERRUN" THEN TRUE ELSE overrun

\* Variant: a completed transfer clears the flag.
overrun_next_Clearing ==
    IF queue_state = "OVERRUN" THEN TRUE
    ELSE IF TransferDone THEN FALSE
    ELSE overrun

overrun_next == IF queue_state = "OVERRUN" THEN TRUE ELSE overrun

----------------------------------------------------------------------------
(* Read FIFO logic *)
stream_valid == data_level > 0
data_buffer_r_en(p) == p.ready

\* The ring buffer's level: a byte goes in when the buffer is not full, one
\* comes out when the consumer is ready and the buffer is not empty.
data_buffer_w_rdy == data_level < mem_size
data_level_next(p) ==
    data_level + (IF data_buffer_w_en /\ data_buffer_w_rdy THEN 1 ELSE 0)
               - (IF data_buffer_r_en(p) /\ stream_valid THEN 1 ELSE 0)

----------------------------------------------------------------------------
\* The cycle reads the packet FIFO's output while that FIFO is empty.
StaleRead == TransferData /\ ~r_rdy(packet_buffer)

(* Observers *)

NoClosed == [ ended |-> FALSE, armed |-> FALSE, first |-> FALSE, count |-> 0,
              off |-> FALSE, pushed |-> FALSE, accepted |-> FALSE, value |-> 0 ]

\* The episode that ended in this cycle, with what the capture FSM wrote to the
\* length FIFO in the same cycle and whether the FIFO took it.
closed_next(p) ==
    IF EpisodeEnds(p)
    THEN [ ended |-> TRUE, armed |-> episode.armed, first |-> episode.first,
           count |-> Len(episode.bytes), off |-> episode.off,
           pushed |-> length_buffer_w_en(p),
           accepted |-> length_buffer_w_en(p) /\ w_rdy(length_buffer, LengthDepth),
           value |-> IF length_buffer_w_en(p) THEN length_buffer_w_data ELSE 0 ]
    ELSE NoClosed

\* A capture session completes when an armed episode ends.
SessionCompletes(p) == EpisodeEnds(p) /\ episode.armed

NoRecord == [ len |-> 0, path |-> "none", pushed |-> << >>, pops |-> 0,
              ticks |-> 0, waited |-> FALSE ]

data_buffer_push == data_buffer_w_en /\ data_buffer_w_rdy
packet_buffer_pop == packet_buffer_r_en /\ r_rdy(packet_buffer)

\* The record the engine is working on: the length it popped, the path
\* INSPECT_PACKET chose, the bytes that went into the ring buffer, the number
\* of bytes that left the packet FIFO for it, the clock edges it has spent in
\* TRANSFER_PACKET or CLEAR_OVERRUN, and whether OVERRUN had to wait for room.
record_next(stale) ==
    CASE queue_state = "POP_LENGTH" ->
            [ NoRecord EXCEPT !.len = length_buffer_r_data, !.path = "popped" ]
      [] queue_state = "INSPECT_PACKET" ->
            [ record EXCEPT !.path = IF WouldOverflow THEN "overrun" ELSE "transfer" ]
      [] TransferDone \/ ClearDone -> NoRecord
      [] OTHER ->
            [ record EXCEPT
                !.pushed = IF data_buffer_push THEN Append(@, data_buffer_w_data(stale)) ELSE @,
                !.pops = IF packet_buffer_pop THEN @ + 1 ELSE @,
                !.ticks = IF queue_state \in {"TRANSFER_PACKET", "CLEAR_OVERRUN"}
                          THEN @ + 1 ELSE @,
                !.waited = @ \/ (queue_state = "OVERRUN" /\ ~MarkerFits) ]

\* Whether INSPECT_PACKET has ever refused a record, and whether a marker byte
\* has ever gone into the ring buffer.
NoHistory == [ refused |-> FALSE, sentinel |-> FALSE ]

history_next ==
    [ refused |-> history.refused \/ (queue_state = "INSPECT_PACKET" /\ WouldOverflow),
      sentinel |-> history.sentinel \/ (ClearMarker /\ data_buffer_push) ]

\* The stream grammar of the consumer: length_hi length_lo payload[length],
\* or 0xFF 0xFF with no payload.
Boundary == [ phase |-> "hi", hi |-> 0, left |-> 0 ]

ParseByte(ps, b) ==
    CASE ps.phase = "hi" -> [ phase |-> "lo", hi |-> b, left |-> 0 ]
      [] ps.phase = "lo" ->
            IF (ps.hi = OverrunMarker /\ b = OverrunMarker) \/ (ps.hi * 256 + b = 0)
            THEN Boundary
            ELSE [ phase |-> "payload", hi |-> 0, left |-> ps.hi * 256 + b ]
      [] ps.phase = "payload" ->
            IF ps.left = 1 THEN Boundary ELSE [ ps EXCEPT !.left = @ - 1 ]

parse_next(stale) ==
    IF data_buffer_push THEN ParseByte(parse, data_buffer_w_data(stale)) ELSE parse

\* The record a completed session stands for in the output stream.
RecordOf(bytes) == << Hi(Len(bytes)), Lo(Len(bytes)) >> \o bytes

\* The bytes of all completed sessions' records, counted up to mem_size + 1.
committed_next(p) ==
    IF SessionCompletes(p) /\ committed <= mem_size
    THEN IF committed + Len(episode.bytes) + 2 > mem_size
         THEN mem_size + 1
         ELSE committed + Len(episode.bytes) + 2
    ELSE committed

expected_next(p) ==
    IF committed_next(p) > mem_size THEN << >>
    ELSE (IF data_buffer_push /\ expected # << >> THEN Tail(expected) ELSE expected)
         \o (IF SessionCompletes(p) THEN RecordOf(episode.bytes) ELSE << >>)

in_order_next(stale) ==
    IF data_buffer_push /\ committed <= mem_size
    THEN in_order /\ expected # << >> /\ Head(expected) = data_buffer_w_data(stale)
    ELSE in_order

----------------------------------------------------------------------------
\* The design state as a record, and the one a clock edge leads to.
design_now ==
    [ mem_size |-> mem_size, capture_state |-> capture_state,
      captured_packet_length |-> captured_packet_length,
      queue_state |-> queue_state, packet_length |-> packet_length,
      packet_transferred |-> packet_transferred, overrun |-> overrun,
      packet_buffer |-> packet_buffer, length_buffer |-> length_buffer,
      data_level |-> data_level ]

design_next(p, stale) ==
    [ mem_size |-> mem_size, capture_state |-> capture_next(p),
      captured_packet_length |-> captured_packet_length_next(p),
      queue_state |-> queue_next, packet_length |-> packet_length_next,
      packet_transferred |-> packet_transferred_next, overrun |-> overrun_next,
      packet_buffer |-> FifoNext(packet_buffer, PacketDepth, packet_buffer_w_en(p),
                                 packet_buffer_w_data(p), packet_buffer_r_en),
      length_buffer |-> FifoNext(length_buffer, LengthDepth, length_buffer_w_en(p),
                                 length_buffer_w_data, length_buffer_r_en),
      data_level |-> data_level_next(p) ]

\* What the capture FSM shows and drives during a cycle.
capture_outputs(p) ==
    [ state |-> capture_state, idle |-> idle, capturing |-> capturing,
      sampling |-> sampling(p),
      byte |-> IF packet_buffer_w_en(p) THEN << packet_buffer_w_data(p) >> ELSE << >>,
      length |-> IF length_buffer_w_en(p) THEN << length_buffer_w_data >> ELSE << >> ]

NoPins == [ rx_active |-> FALSE, rx_valid |-> FALSE, rx_data |-> IdleData,
            capture_enable |-> FALSE, ready |-> FALSE ]
NoSent == [ state |-> "START", idle |-> FALSE, capturing |-> FALSE, sampling |-> FALSE,
            byte |-> << >>, length |-> << >> ]

\* The registers, FIFOs and observers after reset.
Reset ==
    /\ rx_was_active = FALSE
    /\ episodes = 0
    /\ episode = NoEpisode
    /\ closed = NoClosed
    /\ record = NoRecord
    /\ parse = Boundary
    /\ expected = << >>
    /\ in_order = TRUE
    /\ committed = 0
    /\ history = NoHistory
    /\ capture_state = "START"
    /\ captured_packet_length = 0
    /\ queue_state = "IDLE"
    /\ packet_length = 0
    /\ packet_transferred = 0
    /\ overrun = FALSE
    /\ packet_buffer = << >>
    /\ length_buffer = << >>
    /\ data_level = 0
    /\ twin = design_now
    /\ phase = "first"
    /\ held = NoPins
    /\ sent = NoSent
    /\ same = TRUE

Init ==
    /\ mem_size \in MemDepths
    /\ construct = [ mem_depth |-> mem_size, outcome |-> "constructed" ]
    /\ Reset

Tick(p, stale) ==
    /\ Presentable(p)
    /\ mem_size' = mem_size
    /\ capture_state' = capture_next(p)
    /\ captured_packet_length' = captured_packet_length_next(p)
    /\ queue_state' = queue_next
    /\ packet_length' = packet_length_next
    /\ packet_transferred' = packet_transferred_next
    /\ overrun' = overrun_next
    /\ packet_buffer' = FifoNext(packet_buffer, PacketDepth, packet_buffer_w_en(p),
                                 packet_buffer_w_data(p), packet_buffer_r_en)
    /\ length_buffer' = FifoNext(length_buffer, LengthDepth, length_buffer_w_en(p),
                                 length_buffer_w_data, length_buffer_r_en)
    /\ data_level' = data_level_next(p)
    /\ rx_was_active' = p.rx_active
    /\ episodes' = IF EpisodeStarts(p) THEN episodes + 1 ELSE episodes
    /\ episode' = episode_next(p, capture_state = "IDLE" /\ p.capture_enable)
    /\ closed' = closed_next(p)
    /\ record' = record_next(stale)
    /\ parse' = parse_next(stale)
    /\ expected' = expected_next(p)
    /\ in_order' = in_order_next(stale)
    /\ committed' = committed_next(p)
    /\ history' = history_next
    /\ UNCHANGED << pair, construct >>

\* One clock edge, for every value the pins may carry during the cycle and
\* every value a read of the empty packet FIFO may return.
Next ==
    \E a \in BOOLEAN, v \in BOOLEAN, en \in BOOLEAN, rdy \in BOOLEAN :
      \E d \in (IF a /\ v THEN Data ELSE {IdleData}) :
        \E stale \in (IF StaleRead THEN StaleData ELSE {0}) :
          Tick([ rx_active |-> a, rx_valid |-> v, rx_data |-> d,
                 capture_enable |-> en, ready |-> rdy ], stale)

Spec == Init /\ [][Next]_vars

----------------------------------------------------------------------------
(* Two runs of the design on the same receive pins with consumers of their *)
(* own.  The design variables hold the run that steps next and twin holds  *)
(* the other; each step computes the stepping run's clock edge and swaps.  *)

Load(d) ==
    /\ mem_size' = d.mem_size
    /\ capture_state' = d.capture_state
    /\ captured_packet_length' = d.captured_packet_length
    /\ queue_state' = d.queue_state
    /\ packet_length' = d.packet_length
    /\ packet_transferred' = d.packet_transferred
    /\ overrun' = d.overrun
    /\ packet_buffer' = d.packet_buffer
    /\ length_buffer' = d.length_buffer
    /\ data_level' = d.data_level

\* The first run takes a clock edge with pins p.
RunFirst(p, stale) ==
    /\ phase = "first"
    /\ Presentable(p)
    /\ twin' = design_next(p, stale)
    /\ Load(twin)
    /\ held' = [ p EXCEPT !.ready = FALSE ]
    /\ sent' = capture_outputs(p)
    /\ phase' = "second"
    /\ UNCHANGED << wire, observers, same, construct >>

\* The second run takes the same clock edge: the same receive pins, its own ready.
RunSecond(rdy, stale) ==
    LET p == [ held EXCEPT !.ready = rdy ] IN
    /\ phase = "second"
    /\ twin' = design_next(p, stale)
    /\ Load(twin)
    /\ same' = (same /\ capture_outputs(p) = sent)
    /\ rx_was_active' = p.rx_active
    /\ episodes' = IF EpisodeStarts(p) THEN episodes + 1 ELSE episodes
    /\ episode' = episode_next(p, sent.state = "IDLE" /\ p.capture_enable)
    /\ held' = NoPins
    /\ sent' = NoSent
    /\ phase' = "first"
    /\ UNCHANGED << observers, construct >>

PairNext ==
    \/ \E a \in BOOLEAN, v \in BOOLEAN, en \in BOOLEAN, rdy \in BOOLEAN :
         \E d \in (IF a /\ v THEN Data ELSE {IdleData}) :
           \E stale \in (IF StaleRead THEN StaleData ELSE {0}) :
             RunFirst([ rx_active |-> a, rx_valid |-> v, rx_data |-> d,
                        capture_enable |-> en, ready |-> rdy ], stale)
    \/ \E rdy \in BOOLEAN :
         \E stale \in (IF StaleRead THEN StaleData ELSE {0}) :
           RunSecond(rdy, stale)

PairSpec == Init /\ [][PairNext]_vars

----------------------------------------------------------------------------
(* The design with a clock that keeps ticking and a consumer that keeps    *)
(* coming back: a clock edge with ready asserted is taken eventually       *)
(* whenever it would change the state.                                     *)

ReadyTick ==
    \E a \in BOOLEAN, v \in BOOLEAN, en \in BOOLEAN :
      \E d \in (IF a /\ v THEN Data ELSE {IdleData}) :
        \E stale \in (IF StaleRead THEN StaleData ELSE {0}) :
          Tick([ rx_active |-> a, rx_valid |-> v, rx_data |-> d,
                 capture_enable |-> en, ready |-> TRUE ], stale)

LiveSpec == Init /\ [][Next]_vars /\ WF_vars(Next) /\ WF_vars(ReadyTick)

----------------------------------------------------------------------------
(* Construction: __init__ is called with some mem_depth and either raises  *)
(* ValueError or stores it as mem_size.                                    *)

CtorInit ==
    /\ construct \in [ mem_depth : 1..MaxCtorDepth, outcome : {"called"} ]
    /\ mem_size = 0
    /\ Reset

CtorRaise ==
    /\ construct.outcome = "called"
    /\ ~AcceptedDepth(construct.mem_depth)
    /\ construct' = [ construct EXCEPT !.outcome = "ValueError" ]
    /\ UNCHANGED << design, wire, observers, pair >>

CtorReturn ==
    /\ construct.outcome = "called"
    /\ AcceptedDepth(construct.mem_depth)
    /\ mem_size' = construct.mem_depth
    /\ construct' = [ construct EXCEPT !.outcome = "constructed" ]
    /\ UNCHANGED << capture_state, captured_packet_length, queue_state, packet_length,
                    packet_transferred, overrun, packet_buffer, length_buffer,
                    data_level, wire, observers, pair >>

CtorNext == CtorRaise \/ CtorReturn

CtorSpec == CtorInit /\ [][CtorNext]_vars

----------------------------------------------------------------------------
(* Properties *)

IsPrefix(s, t) == Len(s) <= Len(t) /\ SubSeq(t, 1, Len(s)) = s

RECURSIVE SumSeq(_)
SumSeq(s) == IF s = << >> THEN 0 ELSE Head(s) + SumSeq(Tail(s))

\* The pins a cycle may carry in the current state.
PresentablePins == { p \in Pins : Presentable(p) }

Last(s) == s[Len(s)]

\* The length written for the episode that has just ended is the last entry of
\* the length FIFO, if the FIFO took it.
LengthQueued ==
    closed.accepted => (length_buffer # << >> /\ Last(length_buffer) = closed.value)

\* The engine is between records and no length is waiting.
Drained == queue_state = "IDLE" /\ length_buffer = << >>

\* The length of the record the engine has popped and not yet finished.
InFlight ==
    IF queue_state \in {"INSPECT_PACKET", "TRANSFER_PACKET", "OVERRUN", "CLEAR_OVERRUN"}
    THEN packet_length ELSE 0

\* C1: while the records of all completed sessions fit together in the ring
\* buffer, every byte pushed into it is the next byte of the concatenation of
\* (length_hi, length_lo, payload) over the completed sessions in order, and once
\* the engine has drained the length FIFO no byte of that concatenation is
\* missing.
C1_OrderPreservation ==
    committed <= mem_size => (in_order /\ (Drained => expected = << >>))

\* C2: a record that INSPECT_PACKET sent to OVERRUN puts 0xFF 0xFF and nothing
\* else into the ring buffer, the overrun flag is set before the marker is
\* written, and when the engine is about to return to IDLE exactly the record's
\* length in bytes has left the packet FIFO.
C2_OverrunSubstitution ==
    record.path = "overrun" =>
        /\ IsPrefix(record.pushed, << OverrunMarker, OverrunMarker >>)
        /\ (queue_state = "CLEAR_OVERRUN" => overrun)
        /\ (ClearDone => /\ record.pushed = << OverrunMarker, OverrunMarker >>
                         /\ record.pops = record.len)

\* C3: once the overrun flag is true it stays true across every clock edge.
C3_OverrunSticky == [][overrun => overrun']_vars

\* C3 witness: a transfer on the normal path completes with the flag still set.
C3_Witness ==
    overrun /\ TransferDone /\ record.path = "transfer" /\ Len(record.pushed) >= 2

\* C4: the packet FIFO holds at least as many bytes as the waiting lengths and
\* the record in progress account for.
C4_StagingCoversLengths ==
    Len(packet_buffer) >= SumSeq(length_buffer) + InFlight

C6_EnableBoundary ==
    /\ capture_state = "CAPTURE" =>
          /\ captured_packet_length = Len(episode.bytes)
          /\ \A p \in PresentablePins :
                /\ p.rx_active => capture_next(p) = "CAPTURE"
                /\ byte_received(p) =>
                      /\ packet_buffer_w_en(p)
                      /\ packet_buffer_w_data(p) = p.rx_data
                      /\ captured_packet_length_next(p) = captured_packet_length + 1
    /\ episode.armed => capture_state = "CAPTURE"
    /\ (closed.ended /\ closed.armed /\ closed.off) =>
          (closed.pushed /\ closed.value = closed.count /\ LengthQueued)

\* C6 witness: a session that took a byte while capture_enable was low has ended
\* and its length, counting that byte, has been written.
C6_Witness ==
    /\ closed.ended /\ closed.armed /\ closed.off /\ closed.value >= 1
    /\ closed.accepted /\ Last(length_buffer) = closed.count

\* C7: two runs of the design that are given the same rx_active, rx_valid,
\* rx_data and capture_enable in every cycle, and any ready each, have shown the
\* same capture FSM state, idle, capturing and sampling and have driven the same
\* byte into the packet FIFO and the same length into the length FIFO in every
\* cycle so far, and their capture FSMs and byte counters agree now.
C7_ConsumerIndependence ==
    /\ same
    /\ phase = "first" =>
          /\ capture_state = twin.capture_state
          /\ captured_packet_length = twin.captured_packet_length

\* C7 witness: after the same receive history the first run, whose consumer read,
\* transfers the record that the second run, whose ring buffer is full, sends to
\* OVERRUN, and the capture side of both runs has been the same throughout.
C7_Witness ==
    /\ phase = "first" /\ same
    /\ queue_state = "TRANSFER_PACKET" /\ ~overrun
    /\ twin.queue_state = "OVERRUN" /\ twin.data_level = twin.mem_size
    /\ capture_state = twin.capture_state

C10_StatusExclusivity ==
    /\ ~(idle /\ capturing)
    /\ capturing <=> episode.armed

\* C10 witness: capturing is up in the middle of a session that has taken a byte.
C10_Witness == capturing /\ ~idle /\ Len(episode.bytes) >= 1

\* C11: in every state of the capture FSM, START included, idle is true exactly
\* when the analyzer is not capturing a packet.
C11_IdleIffNotCapturing == idle <=> ~capturing

IsPowerOfTwo(n) == \E k \in 0..n : 2^k = n

\* C12: a constructor call that returns was given a power of two as mem_depth,
\* and a call that raises ValueError was given a value that is not one.
C12_PowerOfTwoOnly ==
    /\ construct.outcome = "constructed" => IsPowerOfTwo(construct.mem_depth)
    /\ construct.outcome = "ValueError" => ~IsPowerOfTwo(construct.mem_depth)

\* C13: at the INSPECT_PACKET tick the engine goes to OVERRUN exactly if the
\* ring buffer's level plus the record's length plus 2 exceeds mem_size, and to
\* TRANSFER_PACKET otherwise; a record sent to TRANSFER_PACKET is never in
\* OVERRUN or CLEAR_OVERRUN and every byte taken from the packet FIFO for it goes
\* into the ring buffer; the overrun flag is false as long as no inspected record
\* has failed the test.
C13_FitDecision ==
    /\ queue_state = "INSPECT_PACKET" =>
          /\ record.path = "popped" /\ record.len = packet_length
          /\ queue_next = IF data_level + record.len + 2 > mem_size
                          THEN "OVERRUN" ELSE "TRANSFER_PACKET"
    /\ record.path = "transfer" =>
          /\ queue_state = "TRANSFER_PACKET"
          /\ record.pops <= Len(record.pushed) - 2 \/ record.pops = 0
    /\ record.path = "overrun" => queue_state \in {"OVERRUN", "CLEAR_OVERRUN"}
    /\ queue_state \in {"OVERRUN", "CLEAR_OVERRUN"} => (record.path = "overrun" /\ history.refused)
    /\ overrun => history.refused

\* C13 witness: a record with payload that fits the ring buffer exactly is being
\* transferred and nothing has been refused.
C13_Witness ==
    /\ queue_state = "TRANSFER_PACKET" /\ packet_transferred = 0
    /\ record.path = "transfer" /\ record.len >= 1
    /\ data_level + record.len + 2 = mem_size
    /\ ~overrun /\ ~history.refused

\* C14: the engine enters TRANSFER_PACKET with packet_transferred at 0, pushes
\* the high byte of the length on step 0 and the low byte on step 1, then on every
\* further step takes one byte from the packet FIFO and pushes that byte, and is
\* about to return to IDLE exactly when the two prefix bytes and L payload bytes
\* taken from the packet FIFO have been pushed.
C14_RecordLayout ==
    record.path = "transfer" =>
        /\ packet_transferred = record.ticks
        /\ Len(record.pushed) = record.ticks
        /\ IsPrefix(SubSeq(record.pushed, 1, IF record.ticks < 2 THEN record.ticks ELSE 2),
                    << Hi(record.len), Lo(record.len) >>)
        /\ TransferData => /\ r_rdy(packet_buffer)
                           /\ data_buffer_w_data(0) = Head(packet_buffer)
        /\ record.pops = (IF record.ticks < 2 THEN 0 ELSE record.ticks - 2)
        /\ TransferDone <=> record.ticks = record.len + 2

\* C15: a record of length L spends at most L + 3 clock edges in TRANSFER_PACKET
\* or CLEAR_OVERRUN, whatever the pins carry; from either state the engine goes
\* nowhere but to IDLE; no length is popped between POP_LENGTH and the return to
\* IDLE, and POP_LENGTH is entered from IDLE only, so one record at most is in
\* progress.
C15_NoPreemption ==
    /\ queue_state \in {"TRANSFER_PACKET", "CLEAR_OVERRUN"} =>
          /\ record.ticks + 1 <= record.len + 3
          /\ queue_next \in {queue_state, "IDLE"}
          /\ queue_next = "IDLE" <=> record.ticks + 1 = record.len + 3
    /\ queue_state \in {"INSPECT_PACKET", "TRANSFER_PACKET", "OVERRUN", "CLEAR_OVERRUN"} =>
          /\ ~length_buffer_r_en
          /\ record.path # "none"
          /\ queue_next # "POP_LENGTH"
    /\ queue_state \in {"IDLE", "POP_LENGTH"} => record.path = "none"

\* C15 witness: a discard of a record with payload takes its last clock edge while
\* a further length is waiting in the length FIFO.
C15_Witness ==
    /\ ClearDone /\ record.len >= 1 /\ record.ticks = record.len + 2
    /\ length_buffer # << >>

\* The engine's registers move on this clock edge.
EngineMoves ==
    \/ queue_next # queue_state
    \/ packet_length_next # packet_length
    \/ packet_transferred_next # packet_transferred

\* C16: with a clock that keeps ticking and a consumer that keeps reading, the
\* engine in OVERRUN reaches CLEAR_OVERRUN, a length waiting in the length FIFO is
\* popped, and a popped length is followed by the last step of the transfer or of
\* the discard and the return to IDLE; outside IDLE and OVERRUN every clock edge
\* moves the engine.
C16_Progress ==
    /\ [](queue_state \notin {"IDLE", "OVERRUN"} => EngineMoves)
    /\ (queue_state = "OVERRUN") ~> (queue_state = "CLEAR_OVERRUN")
    /\ (length_buffer # << >>) ~> (queue_state = "POP_LENGTH")
    /\ (queue_state = "POP_LENGTH") ~> (TransferDone \/ ClearDone)
    /\ (queue_state # "IDLE") ~> (queue_state = "IDLE")

\* C16 witness: the engine waited in OVERRUN for room in the ring buffer and has
\* now written the marker and is about to return to IDLE.
C16_Witness ==
    /\ record.waited /\ ClearDone
    /\ record.pushed = << OverrunMarker, OverrunMarker >>

\* C17: the capture FSM enters CAPTURE only from IDLE, with capture_enable high,
\* on the first active cycle of an episode; it is in IDLE only while rx_active was
\* low in the previous cycle; an episode whose first active cycle did not find it
\* in IDLE with capture_enable high never puts it in CAPTURE and never writes a
\* length; and START is left, for IDLE, only in a cycle with rx_active low and
\* capture_enable high.
C17_NoMidPacketStart ==
    /\ capture_state = "IDLE" => ~rx_was_active
    /\ capture_state = "CAPTURE" => (rx_was_active /\ episode.armed)
    /\ \A p \in PresentablePins :
          /\ (capture_state # "CAPTURE" /\ capture_next(p) = "CAPTURE") =>
                (capture_state = "IDLE" /\ p.capture_enable /\ EpisodeStarts(p))
          /\ (capture_state = "START" /\ capture_next(p) # "START") =>
                (capture_next(p) = "IDLE" /\ ~p.rx_active /\ p.capture_enable)
          /\ length_buffer_w_en(p) => episode.armed
    /\ (closed.ended /\ ~closed.armed) => (~closed.pushed /\ capture_state # "CAPTURE")

\* C17 witness: an episode that the FSM saw from START has ended without a length
\* being written, and its last cycle, with capture_enable high, re-armed the FSM.
C17_Witness ==
    /\ closed.ended /\ ~closed.armed /\ ~closed.pushed
    /\ capture_state = "IDLE" /\ length_buffer = << >> /\ packet_buffer = << >>

\* C18: in every cycle in which the engine asserts data_buffer.w_en the ring
\* buffer's level is below mem_size, because the level plus what the record in
\* progress still has to write never exceeds mem_size; every write the engine
\* asserts is therefore taken.
C18_OutputNeverFull ==
    /\ data_level \in 0..mem_size
    /\ data_buffer_w_en => (data_level < mem_size /\ data_buffer_push)
    /\ queue_state = "TRANSFER_PACKET" =>
          /\ Len(record.pushed) = record.ticks
          /\ data_level + (record.len + 2 - record.ticks) <= mem_size
    /\ queue_state = "CLEAR_OVERRUN" =>
          /\ Len(record.pushed) = (IF record.ticks < 2 THEN record.ticks ELSE 2)
          /\ data_level + (2 - Len(record.pushed)) <= mem_size

\* C18 witness: the last payload byte of a record is written into the last free
\* byte of the ring buffer.
C18_Witness ==
    /\ TransferData /\ packet_length = 1 /\ data_buffer_w_en
    /\ data_level = mem_size - 1

\* C19: in every cycle in which the capture FSM writes a byte to the packet FIFO
\* the FIFO is not full, and in every cycle in which it writes a length to the
\* length FIFO that FIFO is not full, so a length written for an episode is
\* always taken.
C19_CaptureNeverFull ==
    /\ \A p \in PresentablePins :
          /\ packet_buffer_w_en(p) => w_rdy(packet_buffer, PacketDepth)
          /\ length_buffer_w_en(p) => w_rdy(length_buffer, LengthDepth)
    /\ closed.pushed => closed.accepted

\* C20: in every cycle in which CLEAR_OVERRUN writes a marker byte the overrun
\* flag is already true; once a marker byte has gone into the ring buffer, where
\* the consumer can read it, the flag is true; and the flag is true only if
\* INSPECT_PACKET has sent a record to OVERRUN.
C20_FlagPrecedesSentinel ==
    /\ queue_state = "CLEAR_OVERRUN" => overrun
    /\ ClearMarker => overrun
    /\ history.sentinel => overrun
    /\ overrun => history.refused
    /\ queue_state = "OVERRUN" => history.refused

\* C20 witness: the first marker byte is in the ring buffer, the second is being
\* written, and the flag is up.
C20_Witness ==
    /\ history.sentinel /\ overrun /\ stream_valid
    /\ ClearMarker /\ packet_transferred = 1
====
